---- MODULE Spec2Model ----
(***************************************************************************)
(* Mask editor of the SAM3 labeling tool: the zustand store, the           *)
(* SingleMode page handlers, the SegmentationCanvas pointer handlers, the  *)
(* MaskList and ToolPanel handlers, and the history manager of the store.  *)
(* Video playback: the VideoPlayer component with the frame preloading and *)
(* buffering described in the video documentation.                         *)
(* Batch page: handleStartBatch and the status polling effect.             *)
(***************************************************************************)
EXTENDS Integers, Sequences, FiniteSets, TLC

(* ------------------------------------------------------------------ *)
(* Bounds of the model                                                 *)
(* ------------------------------------------------------------------ *)
MaxPending == 1
MaxDepth == 2
MaxMasks == 2
MaxPoints == 2
HistPushes == 52
HistBranch == 1
VideoFrames == 7
MaxFailures == 2
RefetchFrames == 6
MaxJobs == 2
MaxStatusRequests == 2
ImgH == 1
ImgW == 2

(* ------------------------------------------------------------------ *)
(* Program constants                                                   *)
(* ------------------------------------------------------------------ *)
maxHistorySize == 50

(* VideoPlayer: useState(100) for totalFrames; frames preloaded ahead and
   frames required before playing *)
DefaultTotalFrames == 100
preloadBuffer == 10
minBufferSize == 5

(* selectedMaskId is null, 'new' or an index *)
NullSel == -1
NewSel == -2

Min(a, b) == IF a < b THEN a ELSE b
Max(a, b) == IF a > b THEN a ELSE b

(* ------------------------------------------------------------------ *)
(* Masks: arrays of rows of 0/1, as the backend returns them           *)
(* ------------------------------------------------------------------ *)
MkMask(h, w, px) == [y \in 1..h |-> [x \in 1..w |-> IF <<x - 1, y - 1>> \in px THEN 1 ELSE 0]]

(* strokeMask[y]?.[x] || 0, with 0-based x and y *)
At(m, y, x) == IF y + 1 <= Len(m) /\ x + 1 <= Len(m[y + 1]) THEN m[y + 1][x + 1] ELSE 0

(* the stroke mask takes the place of the instance's mask *)
MergeAddReplaces(existingMask, strokeMask) ==
  [y \in 1..Len(existingMask) |->
    [x \in 1..Len(existingMask[y]) |-> At(strokeMask, y - 1, x - 1)]]

(* existingMask.map((row, y) => row.map((pixel, x) => pixel || (strokeMask[y]?.[x] || 0))) *)
MergeAdd(existingMask, strokeMask) ==
  [y \in 1..Len(existingMask) |->
    [x \in 1..Len(existingMask[y]) |->
      IF existingMask[y][x] # 0 THEN existingMask[y][x] ELSE At(strokeMask, y - 1, x - 1)]]

(* the pixels under the stroke are the ones kept *)
MergeRemoveKeepsStroke(existingMask, strokeMask) ==
  [y \in 1..Len(existingMask) |->
    [x \in 1..Len(existingMask[y]) |->
      IF existingMask[y][x] # 0 /\ At(strokeMask, y - 1, x - 1) # 0 THEN 1 ELSE 0]]

(* pixel && !(strokeMask[y]?.[x] || 0) ? 1 : 0 *)
MergeRemove(existingMask, strokeMask) ==
  [y \in 1..Len(existingMask) |->
    [x \in 1..Len(existingMask[y]) |->
      IF existingMask[y][x] # 0 /\ At(strokeMask, y - 1, x - 1) = 0 THEN 1 ELSE 0]]

(* mergedMask.some(row => row.some(pixel => pixel > 0)) *)
hasPixels(m) == \E y \in 1..Len(m) : \E x \in 1..Len(m[y]) : m[y][x] > 0

(* the box the mask-compute service returns with a mask: [x1, y1, x2, y2] *)
BoxOf(m) ==
  LET ps == {<<x, y>> \in (0..(ImgW + 1)) \X (0..(ImgH + 1)) : At(m, y, x) # 0}
  IN IF ps = {} THEN <<0, 0, 0, 0>>
     ELSE <<CHOOSE a \in {p[1] : p \in ps} : \A p \in ps : a <= p[1],
            CHOOSE a \in {p[2] : p \in ps} : \A p \in ps : a <= p[2],
            CHOOSE a \in {p[1] : p \in ps} : \A p \in ps : a >= p[1],
            CHOOSE a \in {p[2] : p \in ps} : \A p \in ps : a >= p[2]>>

(* splice(i, 1) on an array, 0-based i; an index past the end removes nothing *)
Splice(s, i) == IF i + 1 > Len(s) \/ i < 0 THEN s
                ELSE SubSeq(s, 1, i) \o SubSeq(s, i + 2, Len(s))

(* every element of the array replaced *)
SetAtEvery(s, i, v) == [j \in 1..Len(s) |-> v]

(* arr[i] = v on an array, 0-based i within the array *)
SetAt(s, i, v) == [s EXCEPT ![i + 1] = v]

(* ------------------------------------------------------------------ *)
(* Registries: the segmentation result {masks, boxes, scores}          *)
(* ------------------------------------------------------------------ *)
Reg(ms, ss) == [masks |-> ms, boxes |-> [i \in 1..Len(ms) |-> BoxOf(ms[i])], scores |-> ss]

MaskA == MkMask(ImgH, ImgW, {<<0, 0>>})
MaskB == MkMask(ImgH, ImgW, {<<1, 0>>})

(* what the inference service may answer to a text prompt *)
InferResults == {Reg(<<MaskA, MaskB>>, <<90, 80>>)}
InferResultsHist == {Reg(<<MaskA>>, <<90>>)}

(* what the mask-compute service may answer to a stroke: masks[0] *)
FullMask == MkMask(ImgH, ImgW, (0..(ImgW - 1)) \X (0..(ImgH - 1)))
Footprints == {MaskB}
FootprintsHist == {FullMask}

(* the answers at the edges: no instance found, a stroke that covers no pixel *)
EmptyMask == MkMask(ImgH, ImgW, {})
InferResultsEdge == {Reg(<<>>, <<>>), Reg(<<MaskA>>, <<90>>)}
FootprintsEdge == {MaskB}
FootprintsZero == {EmptyMask}

(* an answer whose rows are shorter than the image's *)
NarrowMask == MkMask(ImgH, ImgW - 1, {<<0, 0>>})
InferResultsDim == {Reg(<<MaskB>>, <<80>>)}
FootprintsDim == {NarrowMask}

(* ------------------------------------------------------------------ *)
(* The JavaScript heap. A registry object {masks, boxes, scores} refers *)
(* to three arrays; a shallow clone {...registry} refers to the same    *)
(* three arrays. The handlers only ever replace the three arrays of an  *)
(* object together, so the three arrays are one heap cell, the body.    *)
(* ------------------------------------------------------------------ *)
BodyIds == 1..(MaxPending + 3)
NullRef == 0
NoReg == [masks |-> <<>>, boxes |-> <<>>, scores |-> <<>>]
RefIds(r) == {r} \ {NullRef}
Deref(h, r) == IF r = NullRef THEN NoReg ELSE h[r]

(* a new object {masks, boxes, scores} holding new arrays with the given contents *)
AllocObj(h, avoid, val) ==
  LET free == BodyIds \ avoid
      r == CHOOSE a \in free : \A b \in free : a <= b
  IN [ref |-> r, heap |-> [h EXCEPT ![r] = val]]

VARIABLES
  profile,             \* which bounds the run uses
  currentFileId,       \* store: "null" or a file id
  segmentationResult,  \* store: reference to the displayed registry, or NullRef
  heap,                \* contents of the arrays
  selectedMaskId,      \* store: NullSel, NewSel or an index
  activeTool,          \* store: "cursor", "brush", "eraser"
  isLoading,           \* store: the pending-request flag
  history,             \* store: the snapshots
  historyIndex,        \* store: the cursor, -1 when the history is empty
  isDrawing,           \* canvas: a stroke is being captured
  currentStroke,       \* canvas: number of captured points
  inflight,            \* requests awaited by handlers, with what their closures hold
  ev,                  \* the last event and what it was given
  rt                   \* events since the last fresh inference result

VARIABLES
  isPlaying,           \* player: play was pressed and playback has not stopped
  isBuffering,         \* player: the result of the last buffer check
  currentFrame,        \* player: index of the frame shown
  totalFrames,         \* player: the default, then total_frames of the video info
  videoInfo,           \* player: "null" until the video info has arrived
  loadedFrames,        \* player: indices whose preloaded image has fired onload
  fetching,            \* indices of the video with a preload image still loading
  refetching,          \* indices of the video with a second image still loading
  failures             \* number of image loads that have failed

playerVars == <<isPlaying, isBuffering, currentFrame, totalFrames, videoInfo, loadedFrames,
                fetching, refetching, failures>>

VARIABLES
  batch                \* batch page: the job, its status, the interval, the requests awaited

vars == <<playerVars, batch, profile, currentFileId, segmentationResult, heap, selectedMaskId, activeTool,
          isLoading, history, historyIndex, isDrawing, currentStroke, inflight, ev, rt>>

Bnd == IF profile = "hist"
       THEN [pending |-> 1, depth |-> HistPushes + 2, masks |-> HistPushes + 2,
             infer |-> InferResultsHist, fps |-> FootprintsHist]
       ELSE IF profile = "edge"
       THEN [pending |-> MaxPending, depth |-> MaxDepth, masks |-> MaxMasks,
             infer |-> InferResultsEdge, fps |-> FootprintsEdge]
       ELSE IF profile = "zero"
       THEN [pending |-> MaxPending, depth |-> MaxDepth, masks |-> MaxMasks,
             infer |-> InferResultsHist, fps |-> FootprintsZero]
       ELSE IF profile = "dim"
       THEN [pending |-> MaxPending, depth |-> MaxDepth, masks |-> MaxMasks,
             infer |-> InferResultsDim, fps |-> FootprintsDim]
       ELSE [pending |-> MaxPending, depth |-> MaxDepth, masks |-> MaxMasks,
             infer |-> InferResults, fps |-> Footprints]

(* array ids some live object refers to *)
Live == RefIds(segmentationResult) \cup UNION {RefIds(inflight[i].given) : i \in 1..Len(inflight)}

(* arrays no object refers to any more are dropped; the identities of the
   live ones are numbered in the order the store and the pending handlers
   refer to them *)
Collect(h, sr, inf) ==
  LET refs == <<sr>> \o [i \in 1..Len(inf) |-> inf[i].given]
      live == {refs[j] : j \in 1..Len(refs)} \ {NullRef}
      first(r) == CHOOSE j \in 1..Len(refs) : refs[j] = r /\ \A k \in 1..(j - 1) : refs[k] # r
      rank(r) == Cardinality({refs[k] : k \in 1..first(r)} \ {NullRef})
      name(r) == IF r = NullRef THEN NullRef ELSE rank(r)
  IN [sr |-> name(sr),
      inf |-> [i \in 1..Len(inf) |-> [inf[i] EXCEPT !.given = name(@)]],
      heap |-> [i \in BodyIds |-> IF \E r \in live : rank(r) = i
                                  THEN h[CHOOSE r \in live : rank(r) = i] ELSE NoReg]]

(* the displayed registry, as a value *)
Displayed == Deref(heap, segmentationResult)

(* ------------------------------------------------------------------ *)
(* The store (zustand): history manager                                *)
(* ------------------------------------------------------------------ *)
Store == [sr |-> segmentationResult, heap |-> heap, history |-> history,
          historyIndex |-> historyIndex]

setSegmentationResult(s, result) == [s EXCEPT !.sr = result]

(* a push that never evicts *)
pushToHistoryUnbounded(s, result) ==
  LET kept == SubSeq(s.history, 1, s.historyIndex + 1)
      appended == Append(kept, Deref(s.heap, result))
  IN [s EXCEPT !.history = appended, !.historyIndex = Len(appended) - 1, !.sr = result]

(* truncate to [0..c], append a deep copy, evict the oldest beyond the capacity;
   the pushed object becomes the displayed registry *)
pushToHistory(s, result) ==
  LET kept == SubSeq(s.history, 1, s.historyIndex + 1)
      appended == Append(kept, Deref(s.heap, result))
      trimmed == IF Len(appended) > maxHistorySize
                 THEN SubSeq(appended, Len(appended) - maxHistorySize + 1, Len(appended))
                 ELSE appended
  IN [s EXCEPT !.history = trimmed, !.historyIndex = Len(trimmed) - 1, !.sr = result]

canUndo(s) == s.historyIndex > 0
canRedo(s) == s.historyIndex < Len(s.history) - 1

(* the displayed registry becomes a copy of the snapshot before the cursor *)
undo(s) ==
  IF s.historyIndex > 0
  THEN LET o == AllocObj(s.heap, Live \cup RefIds(s.sr), s.history[s.historyIndex])
       IN [s EXCEPT !.historyIndex = @ - 1, !.sr = o.ref, !.heap = o.heap]
  ELSE s

(* the displayed registry becomes a copy of the snapshot after the cursor *)
redo(s) ==
  IF s.historyIndex < Len(s.history) - 1
  THEN LET o == AllocObj(s.heap, Live \cup RefIds(s.sr), s.history[s.historyIndex + 2])
       IN [s EXCEPT !.historyIndex = @ + 1, !.sr = o.ref, !.heap = o.heap]
  ELSE s

clearHistory(s) == [s EXCEPT !.history = <<>>, !.historyIndex = -1]

(* the store's new contents; arrays nothing refers to are dropped *)
Commit(s, inf) ==
  LET c == Collect(s.heap, s.sr, inf)
  IN /\ segmentationResult' = c.sr
     /\ heap' = c.heap
     /\ inflight' = c.inf
     /\ history' = s.history
     /\ historyIndex' = s.historyIndex

(* ------------------------------------------------------------------ *)
(* Records of the last event and of the events since the last fresh    *)
(* inference result                                                    *)
(* ------------------------------------------------------------------ *)
EvTags == {"segment", "push", "delete", "fail", "leave", "invalid"}
EvBase == "other"
Ev(op, out) == IF op \in EvTags THEN op ELSE "other"

RtNone == [phase |-> "none", p |-> 0, u |-> 0, r |-> 0, q |-> 0, target |-> NoReg]
RtX == [RtNone EXCEPT !.phase = "X"]

(* phases: P pushes, then U undo presses, then R redo presses or Q pushes *)
RtStep(e, val) ==
  CASE profile # "hist" -> rt
    [] e = "segment" -> [RtNone EXCEPT !.phase = "P", !.target = val]
    [] e = "reset" -> RtNone
    [] e = "push" ->
         IF rt.phase = "P" /\ rt.p < HistPushes THEN [rt EXCEPT !.p = @ + 1, !.target = val]
         ELSE IF rt.phase \in {"U", "Q"} /\ rt.q < HistBranch
         THEN [rt EXCEPT !.phase = "Q", !.q = @ + 1]
         ELSE RtX
    [] e = "undo" ->
         IF rt.phase \in {"P", "U"} /\ rt.u < rt.p + 1
         THEN [rt EXCEPT !.phase = "U", !.u = @ + 1] ELSE RtX
    [] e = "redo" ->
         IF rt.phase \in {"U", "R"} /\ rt.r < rt.u + 1
         THEN [rt EXCEPT !.phase = "R", !.r = @ + 1] ELSE RtX
    [] OTHER -> rt

(* ------------------------------------------------------------------ *)
(* Initial state: the store and the components after construction      *)
(* ------------------------------------------------------------------ *)
InitStore ==
  /\ currentFileId = "null"
  /\ segmentationResult = NullRef
  /\ heap = [i \in BodyIds |-> NoReg]
  /\ selectedMaskId = NullSel
  /\ activeTool = "cursor"
  /\ isLoading = FALSE
  /\ history = <<>>
  /\ historyIndex = -1
  /\ isDrawing = FALSE
  /\ currentStroke = 0
  /\ inflight = <<>>
  /\ ev = EvBase
  /\ rt = RtNone

(* the useState defaults of VideoPlayer; the player is not mounted on an image *)
InitPlayer ==
  /\ isPlaying = FALSE
  /\ isBuffering = FALSE
  /\ currentFrame = 0
  /\ totalFrames = DefaultTotalFrames
  /\ videoInfo = "null"
  /\ loadedFrames = {}
  /\ fetching = {}
  /\ refetching = {}
  /\ failures = 0

(* the batch page as mounted: no job, no status, no interval *)
NoJob == 0
InitBatchPage ==
  batch = [currentJobId |-> NoJob, jobStatus |-> "null", polling |-> FALSE,
           creating |-> FALSE, statusRequests |-> <<>>, server |-> <<>>]

InitCommon == InitStore /\ InitPlayer /\ InitBatchPage

Init == profile = "main" /\ InitCommon

InitHist == profile = "hist" /\ InitCommon

InitEdge == profile = "edge" /\ InitCommon

InitDim == profile = "dim" /\ InitCommon

InitZero == profile = "zero" /\ InitCommon

Request(kind, maskId, operation, given) ==
  [kind |-> kind, maskId |-> maskId, operation |-> operation, given |-> given]

RemoveAt(s, i) == SubSeq(s, 1, i - 1) \o SubSeq(s, i + 1, Len(s))

(* what the page renders *)
CanvasShown == currentFileId # "null"
MaskListShown == /\ currentFileId # "null"
                 /\ segmentationResult # NullRef
                 /\ Len(Displayed.masks) > 0

(* ------------------------------------------------------------------ *)
(* SingleMode: handleFileSelect                                        *)
(* ------------------------------------------------------------------ *)
UploadStart ==
  /\ currentFileId = "null"
  /\ ~isDrawing
  /\ Len(inflight) < Bnd.pending
  /\ isLoading' = TRUE
  /\ inflight' = Append(inflight, Request("upload", NullSel, "none", NullRef))
  /\ ev' = Ev("ui", "none")
  /\ UNCHANGED <<playerVars, batch, profile, currentFileId, segmentationResult, heap, selectedMaskId, activeTool,
                 history, historyIndex, isDrawing, currentStroke, rt>>

UploadDone(i, ok) ==
  /\ inflight[i].kind = "upload"
  /\ inflight' = RemoveAt(inflight, i)
  /\ currentFileId' = IF ok THEN "f1" ELSE currentFileId
  /\ isLoading' = FALSE
  /\ ev' = Ev("upload", IF ok THEN "success" ELSE "error")
  /\ UNCHANGED <<playerVars, batch, profile, segmentationResult, heap, selectedMaskId, activeTool,
                 history, historyIndex, isDrawing, currentStroke, rt>>

(* ------------------------------------------------------------------ *)
(* SingleMode: handleSegment                                           *)
(* ------------------------------------------------------------------ *)
SegmentStart ==
  /\ currentFileId # "null"
  /\ ~isLoading
  /\ ~isDrawing
  /\ Len(inflight) < Bnd.pending
  /\ isLoading' = TRUE
  /\ inflight' = Append(inflight, Request("segment", NullSel, "none", NullRef))
  /\ ev' = Ev("ui", "none")
  /\ UNCHANGED <<playerVars, batch, profile, currentFileId, segmentationResult, heap, selectedMaskId, activeTool,
                 history, historyIndex, isDrawing, currentStroke, rt>>

(* the history of the replaced registry is kept *)
handleSegmentResultKeepsHistory(s, result) ==
  pushToHistory(setSegmentationResult(s, result), result)

(* setSegmentationResult(result); clearHistory(); pushToHistory(result) *)
handleSegmentResult(s, result) ==
  pushToHistory(clearHistory(setSegmentationResult(s, result)), result)

SegmentDone(i, ok, val) ==
  /\ inflight[i].kind = "segment"
  /\ isLoading' = FALSE
  /\ IF ok
     THEN LET o == AllocObj(heap, Live, val)
          IN /\ Commit(handleSegmentResult([Store EXCEPT !.heap = o.heap], o.ref),
                       RemoveAt(inflight, i))
             /\ ev' = Ev("segment", "success")
             /\ rt' = RtStep("segment", val)
     ELSE /\ Commit(Store, RemoveAt(inflight, i))
          /\ ev' = Ev("other", "error")
          /\ rt' = rt
  /\ UNCHANGED <<playerVars, batch, profile, currentFileId, selectedMaskId, activeTool, isDrawing, currentStroke>>

(* ------------------------------------------------------------------ *)
(* SingleMode: handleReset                                             *)
(* ------------------------------------------------------------------ *)
(* clearCurrentFile() of the store, then clearHistory() *)
handleResetStore(s) == clearHistory([s EXCEPT !.sr = NullRef])

Reset ==
  /\ currentFileId # "null"
  /\ ~isDrawing
  /\ currentFileId' = "null"
  /\ Commit(handleResetStore(Store), inflight)
  /\ ev' = Ev("reset", "none")
  /\ rt' = RtStep("reset", NoReg)
  /\ UNCHANGED <<playerVars, batch, profile, selectedMaskId, activeTool, isLoading, isDrawing, currentStroke>>

(* ------------------------------------------------------------------ *)
(* ToolPanel: handleToolSelect                                         *)
(* ------------------------------------------------------------------ *)
ToolSelect(toolId) ==
  /\ ~isDrawing
  /\ IF (toolId \in {"brush", "eraser"}) /\ segmentationResult = NullRef
     THEN activeTool' = activeTool /\ ev' = Ev("toolSelect", "warning")
     ELSE IF toolId = "eraser" /\ selectedMaskId \in {NullSel, NewSel}
     THEN activeTool' = activeTool /\ ev' = Ev("toolSelect", "warning")
     ELSE activeTool' = toolId /\ ev' = Ev("toolSelect", "none")
  /\ UNCHANGED <<playerVars, batch, profile, currentFileId, segmentationResult, heap, selectedMaskId, isLoading,
                 history, historyIndex, isDrawing, currentStroke, inflight, rt>>

(* ------------------------------------------------------------------ *)
(* MaskList: handleMaskSelect, handleCreateNewMask                     *)
(* ------------------------------------------------------------------ *)
MaskSelect(maskId) ==
  /\ MaskListShown
  /\ ~isDrawing
  /\ maskId \in 0..(Len(Displayed.masks) - 1)
  /\ selectedMaskId' = maskId
  /\ ev' = Ev("ui", "none")
  /\ UNCHANGED <<playerVars, batch, profile, currentFileId, segmentationResult, heap, activeTool, isLoading,
                 history, historyIndex, isDrawing, currentStroke, inflight, rt>>

CreateNewMask ==
  /\ MaskListShown
  /\ ~isDrawing
  /\ IF activeTool # "brush"
     THEN selectedMaskId' = selectedMaskId /\ ev' = Ev("createNew", "warning")
     ELSE selectedMaskId' = NewSel /\ ev' = Ev("createNew", "none")
  /\ UNCHANGED <<playerVars, batch, profile, currentFileId, segmentationResult, heap, activeTool, isLoading,
                 history, historyIndex, isDrawing, currentStroke, inflight, rt>>

(* ------------------------------------------------------------------ *)
(* MaskList: handleDeleteMask; SingleMode: handleDeleteMask            *)
(* ------------------------------------------------------------------ *)
(* the deletion is displayed but not recorded, as in the first version of the page *)
handleDeleteMaskUnsaved(s, maskIndex) ==
  IF s.sr = NullRef THEN s
  ELSE LET o == AllocObj(s.heap, Live,
                         [masks |-> Splice(s.heap[s.sr].masks, maskIndex),
                          boxes |-> Splice(s.heap[s.sr].boxes, maskIndex),
                          scores |-> Splice(s.heap[s.sr].scores, maskIndex)])
       IN setSegmentationResult([s EXCEPT !.heap = o.heap], o.ref)

(* a deletion that leaves the score of the deleted instance in its list *)
handleDeleteMaskLeavesScores(s, maskIndex) ==
  IF s.sr = NullRef THEN s
  ELSE LET o == AllocObj(s.heap, Live,
                         [masks |-> Splice(s.heap[s.sr].masks, maskIndex),
                          boxes |-> Splice(s.heap[s.sr].boxes, maskIndex),
                          scores |-> s.heap[s.sr].scores])
       IN pushToHistory([s EXCEPT !.heap = o.heap], o.ref)

(* SingleMode.handleDeleteMask: clone, copy the three arrays, splice, push *)
handleDeleteMask(s, maskIndex) ==
  IF s.sr = NullRef THEN s
  ELSE LET o == AllocObj(s.heap, Live,
                         [masks |-> Splice(s.heap[s.sr].masks, maskIndex),
                          boxes |-> Splice(s.heap[s.sr].boxes, maskIndex),
                          scores |-> Splice(s.heap[s.sr].scores, maskIndex)])
       IN pushToHistory([s EXCEPT !.heap = o.heap], o.ref)

(* the selection above the deleted index left as it was *)
SelectionAfterDeleteKeepsIndex(sel, maskId) ==
  IF sel = maskId THEN NullSel ELSE sel

(* MaskList.handleDeleteMask: the selection after deleting maskId *)
SelectionAfterDelete(sel, maskId) ==
  IF sel = maskId THEN NullSel
  ELSE IF sel \notin {NullSel, NewSel} /\ sel > maskId THEN sel - 1
  ELSE sel

DeleteMask(maskId, confirmed) ==
  /\ MaskListShown
  /\ ~isDrawing
  /\ maskId \in 0..(Len(Displayed.masks) - 1)
  /\ historyIndex + 1 < Bnd.depth
  /\ IF confirmed
     THEN LET s == handleDeleteMask(Store, maskId)
          IN /\ Commit(s, inflight)
             /\ selectedMaskId' = SelectionAfterDelete(selectedMaskId, maskId)
             /\ ev' = Ev("delete", "done")
             /\ rt' = RtStep("push", Deref(s.heap, s.sr))
     ELSE /\ ev' = Ev("ui", "cancelled")
          /\ UNCHANGED <<segmentationResult, heap, history, historyIndex, selectedMaskId,
                         inflight, rt>>
  /\ UNCHANGED <<playerVars, batch, profile, currentFileId, activeTool, isLoading, isDrawing, currentStroke>>

(* ------------------------------------------------------------------ *)
(* SegmentationCanvas: pointer handlers                                *)
(* ------------------------------------------------------------------ *)
(* the eraser let through without a selection *)
MouseDownStartsEraserUnchecked ==
  \/ activeTool = "eraser"
  \/ selectedMaskId # NullSel

(* handleMouseDown: the validation of the tool and the selection *)
MouseDownStarts == /\ selectedMaskId # NullSel
                   /\ ~(activeTool = "eraser" /\ selectedMaskId = NewSel)

MouseDown ==
  /\ CanvasShown
  /\ ~isDrawing
  /\ activeTool \in {"brush", "eraser"}
  /\ IF MouseDownStarts
     THEN isDrawing' = TRUE /\ currentStroke' = 1 /\ ev' = Ev("mouseDown", "none")
     ELSE isDrawing' = isDrawing /\ currentStroke' = currentStroke
          /\ ev' = Ev("invalid", "warning")
  /\ UNCHANGED <<playerVars, batch, profile, currentFileId, segmentationResult, heap, selectedMaskId, activeTool,
                 isLoading, history, historyIndex, inflight, rt>>

(* handleMaskClick on a rendered mask *)
MaskClick(maskId) ==
  /\ CanvasShown
  /\ segmentationResult # NullRef
  /\ ~isDrawing
  /\ maskId \in 0..(Len(Displayed.masks) - 1)
  /\ selectedMaskId' = IF activeTool # "cursor" THEN selectedMaskId ELSE maskId
  /\ ev' = Ev("ui", "none")
  /\ UNCHANGED <<playerVars, batch, profile, currentFileId, segmentationResult, heap, activeTool, isLoading,
                 history, historyIndex, isDrawing, currentStroke, inflight, rt>>

MouseMove ==
  /\ CanvasShown
  /\ activeTool \in {"brush", "eraser"}
  /\ isDrawing
  /\ currentStroke < MaxPoints
  /\ currentStroke' = currentStroke + 1
  /\ ev' = Ev("ui", "none")
  /\ UNCHANGED <<playerVars, batch, profile, currentFileId, segmentationResult, heap, selectedMaskId, activeTool,
                 isLoading, history, historyIndex, isDrawing, inflight, rt>>

(* handleMouseUp, and handleBrushStroke up to its await of editMask *)
MouseUp ==
  /\ CanvasShown
  /\ activeTool \in {"brush", "eraser"}
  /\ isDrawing
  /\ Len(inflight) < Bnd.pending
  /\ IF currentStroke > 0
     THEN /\ isLoading' = TRUE
          /\ inflight' = Append(inflight,
               Request("edit", selectedMaskId,
                       IF activeTool = "brush" THEN "add" ELSE "remove", segmentationResult))
     ELSE UNCHANGED <<isLoading, inflight>>
  /\ isDrawing' = FALSE
  /\ currentStroke' = 0
  /\ ev' = Ev("mouseUp", "none")
  /\ UNCHANGED <<playerVars, batch, profile, currentFileId, segmentationResult, heap, selectedMaskId, activeTool,
                 history, historyIndex, rt>>

(* the stroke goes on when the pointer leaves *)
MouseLeaveKeepsStroke ==
  /\ CanvasShown
  /\ isDrawing
  /\ ev' = Ev("leave", "none")
  /\ UNCHANGED <<playerVars, batch, profile, currentFileId, segmentationResult, heap, selectedMaskId, activeTool,
                 isLoading, history, historyIndex, isDrawing, currentStroke, inflight, rt>>

MouseLeave ==
  /\ CanvasShown
  /\ isDrawing
  /\ isDrawing' = FALSE
  /\ currentStroke' = 0
  /\ ev' = Ev("leave", "none")
  /\ UNCHANGED <<playerVars, batch, profile, currentFileId, segmentationResult, heap, selectedMaskId, activeTool,
                 isLoading, history, historyIndex, inflight, rt>>

(* ------------------------------------------------------------------ *)
(* SingleMode: handleBrushStroke after its await of editMask           *)
(* ------------------------------------------------------------------ *)
Thrown(h) == [out |-> "error", heap |-> h, ref |-> NullRef, clearSel |-> FALSE]

(* the new instance put at the front of the list *)
MergeStrokeNewFirst(h, given, maskId, operation, strokeMask) ==
  IF given = NullRef THEN Thrown(h)
  ELSE IF maskId = NewSel
  THEN LET o == AllocObj(h, Live,
                  [masks |-> <<strokeMask>> \o h[given].masks,
                   boxes |-> <<BoxOf(strokeMask)>> \o h[given].boxes,
                   scores |-> <<100>> \o h[given].scores])
       IN [out |-> "applied", heap |-> o.heap, ref |-> o.ref, clearSel |-> FALSE]
  ELSE IF maskId \notin 0..(Len(h[given].masks) - 1) THEN Thrown(h)
  ELSE LET existingMask == h[given].masks[maskId + 1]
       IN IF operation = "add"
          THEN [out |-> "applied",
                heap |-> [h EXCEPT ![given].masks = SetAt(@, maskId, MergeAdd(existingMask, strokeMask))],
                ref |-> given, clearSel |-> FALSE]
          ELSE IF operation = "remove"
          THEN LET mergedMask == MergeRemove(existingMask, strokeMask)
               IN IF ~hasPixels(mergedMask)
                  THEN [out |-> "applied",
                        heap |-> [h EXCEPT ![given].masks = Splice(@, maskId),
                                           ![given].boxes = Splice(@, maskId),
                                           ![given].scores = Splice(@, maskId)],
                        ref |-> given, clearSel |-> TRUE]
                  ELSE [out |-> "applied",
                        heap |-> [h EXCEPT ![given].masks = SetAt(@, maskId, mergedMask)],
                        ref |-> given, clearSel |-> FALSE]
          ELSE [out |-> "applied", heap |-> h, ref |-> given, clearSel |-> FALSE]

(* the merge of the stroke mask into a shallow clone of the registry the
   handler holds: the result object, the heap after it, and whether the
   selection is cleared *)
MergeStroke(h, given, maskId, operation, strokeMask) ==
  IF given = NullRef THEN Thrown(h)
  ELSE IF maskId = NewSel
  THEN LET o == AllocObj(h, Live,
                  [masks |-> Append(h[given].masks, strokeMask),
                   boxes |-> Append(h[given].boxes, BoxOf(strokeMask)),
                   scores |-> Append(h[given].scores, 100)])
       IN [out |-> "applied", heap |-> o.heap, ref |-> o.ref, clearSel |-> FALSE]
  ELSE IF maskId \notin 0..(Len(h[given].masks) - 1) THEN Thrown(h)
  ELSE LET existingMask == h[given].masks[maskId + 1]
       IN IF operation = "add"
          THEN [out |-> "applied",
                heap |-> [h EXCEPT ![given].masks = SetAt(@, maskId, MergeAdd(existingMask, strokeMask))],
                ref |-> given, clearSel |-> FALSE]
          ELSE IF operation = "remove"
          THEN LET mergedMask == MergeRemove(existingMask, strokeMask)
               IN IF ~hasPixels(mergedMask)
                  THEN [out |-> "applied",
                        heap |-> [h EXCEPT ![given].masks = Splice(@, maskId),
                                           ![given].boxes = Splice(@, maskId),
                                           ![given].scores = Splice(@, maskId)],
                        ref |-> given, clearSel |-> TRUE]
                  ELSE [out |-> "applied",
                        heap |-> [h EXCEPT ![given].masks = SetAt(@, maskId, mergedMask)],
                        ref |-> given, clearSel |-> FALSE]
          ELSE [out |-> "applied", heap |-> h, ref |-> given, clearSel |-> FALSE]

(* setSegmentationResult(updatedResult) of the first version of the page *)
handleBrushStrokeUnsaved(s, updatedResult) == setSegmentationResult(s, updatedResult)

(* pushToHistory(updatedResult), which also updates segmentationResult *)
handleBrushStrokeSave(s, updatedResult) == pushToHistory(s, updatedResult)

(* a failure that also empties the history *)
handleBrushStrokeFailedDropsHistory(s) == clearHistory(s)

(* catch: console.error and an error toast; the store is not written *)
handleBrushStrokeFailed(s) == s

(* the answers to editMask: the request throws, the result holds no mask, or
   the result holds a stroke mask *)
Responses(fps) == {[tag |-> "fail", mask |-> <<>>], [tag |-> "empty", mask |-> <<>>]}
                  \cup {[tag |-> "mask", mask |-> f] : f \in fps}

StrokeDone(i, resp) ==
  /\ inflight[i].kind = "edit"
  /\ resp.tag = "mask" => /\ historyIndex + 1 < Bnd.depth
                          /\ inflight[i].maskId = NewSel =>
                               Len(Deref(heap, inflight[i].given).masks) < Bnd.masks
  /\ isLoading' = FALSE
  /\ LET req == inflight[i]
         rest == RemoveAt(inflight, i)
     IN IF resp.tag \in {"fail", "empty"}
        THEN /\ Commit(IF resp.tag = "fail" THEN handleBrushStrokeFailed(Store) ELSE Store, rest)
             /\ ev' = Ev(IF resp.tag = "fail" THEN "fail" ELSE "other", "none")
             /\ UNCHANGED <<selectedMaskId, rt>>
        ELSE LET m == MergeStroke(heap, req.given, req.maskId, req.operation, resp.mask)
             IN /\ ev' = Ev(IF m.out = "applied" THEN "push" ELSE "fail", "stroke")
                /\ IF m.out = "applied"
                   THEN /\ Commit(handleBrushStrokeSave([Store EXCEPT !.heap = m.heap], m.ref), rest)
                        /\ selectedMaskId' = IF m.clearSel THEN NullSel ELSE selectedMaskId
                        /\ rt' = RtStep("push", Deref(m.heap, m.ref))
                   ELSE /\ Commit(handleBrushStrokeFailed(Store), rest)
                        /\ UNCHANGED <<selectedMaskId, rt>>
  /\ UNCHANGED <<playerVars, batch, profile, currentFileId, activeTool, isDrawing, currentStroke>>

(* ------------------------------------------------------------------ *)
(* SingleMode: keyboard shortcuts; ToolPanel: undo and redo buttons    *)
(* ------------------------------------------------------------------ *)
KeyEvents == {[ctrl |-> TRUE, shift |-> FALSE, key |-> "z", input |-> FALSE],
              [ctrl |-> TRUE, shift |-> TRUE, key |-> "z", input |-> FALSE],
              [ctrl |-> TRUE, shift |-> FALSE, key |-> "y", input |-> FALSE],
              [ctrl |-> TRUE, shift |-> FALSE, key |-> "z", input |-> TRUE],
              [ctrl |-> FALSE, shift |-> FALSE, key |-> "z", input |-> FALSE]}

(* the documented shortcuts *)
UndoKey(e) == ~e.input /\ e.ctrl /\ e.key = "z" /\ ~e.shift
RedoKey(e) == ~e.input /\ e.ctrl /\ ((e.key = "z" /\ e.shift) \/ e.key = "y")

(* the undo shortcut also taken with Shift held *)
handleKeyDownShiftIgnored(s, e) ==
  IF e.input THEN s
  ELSE LET s1 == IF e.ctrl /\ e.key = "z" /\ canUndo(s) THEN undo(s) ELSE s
           s2 == IF e.ctrl /\ e.key = "z" /\ e.shift /\ canRedo(s1) THEN redo(s1) ELSE s1
           s3 == IF e.ctrl /\ e.key = "y" /\ canRedo(s2) THEN redo(s2) ELSE s2
       IN s3

(* Ctrl+Y bound to undo *)
handleKeyDownYUndoes(s, e) ==
  IF e.input THEN s
  ELSE LET s1 == IF e.ctrl /\ e.key = "z" /\ ~e.shift /\ canUndo(s) THEN undo(s) ELSE s
           s2 == IF e.ctrl /\ e.key = "z" /\ e.shift /\ canRedo(s1) THEN redo(s1) ELSE s1
           s3 == IF e.ctrl /\ e.key = "y" /\ canUndo(s2) THEN undo(s2) ELSE s2
       IN s3

handleKeyDown(s, e) ==
  IF e.input THEN s
  ELSE LET s1 == IF e.ctrl /\ e.key = "z" /\ ~e.shift /\ canUndo(s) THEN undo(s) ELSE s
           s2 == IF e.ctrl /\ e.key = "z" /\ e.shift /\ canRedo(s1) THEN redo(s1) ELSE s1
           s3 == IF e.ctrl /\ e.key = "y" /\ canRedo(s2) THEN redo(s2) ELSE s2
       IN s3

KeyDown(e) ==
  /\ Commit(handleKeyDown(Store, e), inflight)
  /\ ev' = Ev(IF UndoKey(e) THEN "undo" ELSE IF RedoKey(e) THEN "redo" ELSE "key", "none")
  /\ rt' = RtStep(IF UndoKey(e) THEN "undo" ELSE IF RedoKey(e) THEN "redo" ELSE "none", NoReg)
  /\ UNCHANGED <<playerVars, batch, profile, currentFileId, selectedMaskId, activeTool, isLoading, isDrawing,
                 currentStroke>>

(* the button is rendered with a registry and enabled with canUndo() *)
ClickUndo ==
  /\ segmentationResult # NullRef
  /\ ~isDrawing
  /\ canUndo(Store)
  /\ Commit(undo(Store), inflight)
  /\ ev' = Ev("undo", "none")
  /\ rt' = RtStep("undo", NoReg)
  /\ UNCHANGED <<playerVars, batch, profile, currentFileId, selectedMaskId, activeTool, isLoading, isDrawing,
                 currentStroke>>

ClickRedo ==
  /\ segmentationResult # NullRef
  /\ ~isDrawing
  /\ canRedo(Store)
  /\ Commit(redo(Store), inflight)
  /\ ev' = Ev("redo", "none")
  /\ rt' = RtStep("redo", NoReg)
  /\ UNCHANGED <<playerVars, batch, profile, currentFileId, selectedMaskId, activeTool, isLoading, isDrawing,
                 currentStroke>>

(* ------------------------------------------------------------------ *)
(* VideoPlayer: frame preloading, buffer check and playback clock      *)
(* ------------------------------------------------------------------ *)
(* the number of frames of the uploaded video *)
Frames == IF profile = "refetch" THEN RefetchFrames ELSE VideoFrames

editorVars == <<profile, currentFileId, segmentationResult, heap, selectedMaskId, activeTool,
                isLoading, history, historyIndex, isDrawing, currentStroke, inflight, rt>>

(* the largest index the model lets currentFrame take while the default
   total is in use: the first index the video does not have *)
MaxFrame == Frames

(* the frame-source service answers an image for the indices of the video
   and an error for any other index *)
HasFrame(i) == i \in 0..(Frames - 1)

Range(s) == {s[k] : k \in 1..Len(s)}

(* preloadFrames(startFrame): the indices an Image is created for, in the
   order of the loop *)
preloadFrames(startFrame, loaded) ==
  SelectSeq([i \in 1..preloadBuffer |-> startFrame + i - 1], LAMBDA f : f \notin loaded)

(* the count taken from the current index instead of the next one *)
bufferCheckFromCurrent(frame, loaded) ==
  Cardinality({i \in 0..(minBufferSize - 1) : (frame + i) \in loaded}) < minBufferSize

(* the buffer check: bufferedCount < 5 over the next 5 indices *)
bufferCheck(frame, loaded) ==
  Cardinality({i \in 1..minBufferSize : (frame + i) \in loaded}) < minBufferSize

(* the interval set whenever isPlaying *)
ClockRunsUngated(playing, buffering) == playing

(* the interval is set only if (isPlaying && !isBuffering) *)
ClockRuns(playing, buffering) == playing /\ ~buffering

(* the updater the interval passes to setCurrentFrame *)
tick(prev, total) ==
  IF prev >= total - 1 THEN [frame |-> 0, stop |-> TRUE]
  ELSE [frame |-> prev + 1, stop |-> FALSE]

(* a seek that drops the loads outside the new preload window *)
FrameEffectsCancelsOutside(frame) ==
  /\ LET created == IF frame # currentFrame
                    THEN {f \in Range(preloadFrames(frame, loadedFrames)) : HasFrame(f)}
                    ELSE {}
     IN /\ fetching' = {f \in fetching : f >= frame} \cup created
        /\ refetching' = refetching
  /\ isBuffering' = bufferCheck(frame, loadedFrames)
  /\ UNCHANGED loadedFrames

(* the effects of a render: a new frame index starts the preload of the
   frames ahead of it, and the buffer is checked; a load of an index the
   video does not have ends in an error nothing listens to *)
FrameEffects(frame) ==
  /\ LET created == IF frame # currentFrame
                    THEN {f \in Range(preloadFrames(frame, loadedFrames)) : HasFrame(f)}
                    ELSE {}
     IN /\ fetching' = fetching \cup created
        /\ refetching' = IF profile = "refetch"
                         THEN refetching \cup (created \cap fetching)
                         ELSE refetching
  /\ isBuffering' = bufferCheck(frame, loadedFrames)
  /\ UNCHANGED loadedFrames

(* the player mounted on an uploaded video: the video info is requested,
   the frames from index 0 are preloaded and the buffer is checked *)
InitVideoPlayer ==
  /\ InitStore
  /\ InitBatchPage
  /\ isPlaying = FALSE
  /\ currentFrame = 0
  /\ totalFrames = DefaultTotalFrames
  /\ videoInfo = "null"
  /\ loadedFrames = {}
  /\ fetching = {f \in Range(preloadFrames(0, {})) : HasFrame(f)}
  /\ refetching = {}
  /\ isBuffering = bufferCheck(0, {})
  /\ failures = 0

InitVideo == profile = "video" /\ InitVideoPlayer

InitRefetch == profile = "refetch" /\ InitVideoPlayer

(* getVideoInfo answers: setTotalFrames(info.total_frames) *)
VideoInfoDone ==
  /\ videoInfo = "null"
  /\ videoInfo' = "loaded"
  /\ totalFrames' = Frames
  /\ ev' = "other"
  /\ UNCHANGED <<editorVars, batch, isPlaying, isBuffering, currentFrame, loadedFrames, fetching,
                 refetching, failures>>

(* one image of index i is done: another one may still be loading *)
Settle(i) ==
  /\ i \in fetching
  /\ fetching' = IF i \in refetching THEN fetching ELSE fetching \ {i}
  /\ refetching' = refetching \ {i}

(* img.onload: the index joins loadedFrames; the buffer is checked again *)
FrameLoaded(i) ==
  /\ Settle(i)
  /\ loadedFrames' = loadedFrames \cup {i}
  /\ isBuffering' = bufferCheck(currentFrame, loadedFrames')
  /\ ev' = "other"
  /\ UNCHANGED <<editorVars, batch, isPlaying, currentFrame, totalFrames, videoInfo, failures>>

(* the image fails to load: no handler is attached *)
FrameFailed(i) ==
  /\ Settle(i)
  /\ failures < MaxFailures
  /\ failures' = failures + 1
  /\ ev' = "failed"
  /\ UNCHANGED <<editorVars, batch, isPlaying, isBuffering, currentFrame, totalFrames, videoInfo,
                 loadedFrames>>

(* setIsPlaying(!isPlaying) *)
handlePlayPause ==
  /\ isPlaying' = ~isPlaying
  /\ ev' = "other"
  /\ UNCHANGED <<editorVars, batch, isBuffering, currentFrame, totalFrames, videoInfo, loadedFrames,
                 fetching, refetching, failures>>

(* a seek that leaves playback on *)
SeekKeepsPlaying(target) ==
  /\ target <= MaxFrame
  /\ currentFrame' = target
  /\ FrameEffects(target)
  /\ ev' = "seek"
  /\ UNCHANGED <<editorVars, batch, isPlaying, totalFrames, videoInfo, failures>>

(* setIsPlaying(false); setCurrentFrame(target) *)
Seek(target) ==
  /\ target <= MaxFrame
  /\ isPlaying' = FALSE
  /\ currentFrame' = target
  /\ FrameEffects(target)
  /\ ev' = "seek"
  /\ UNCHANGED <<editorVars, batch, totalFrames, videoInfo, failures>>

handlePreviousFrame == Seek(Max(0, currentFrame - 1))

handleNextFrame == Seek(Min(totalFrames - 1, currentFrame + 1))

(* the slider: min 0, max totalFrames - 1 *)
handleSliderChange(value) ==
  /\ value \in 0..(totalFrames - 1)
  /\ Seek(value)

(* one tick of the interval *)
Tick ==
  /\ ClockRuns(isPlaying, isBuffering)
  /\ LET t == tick(currentFrame, totalFrames)
     IN /\ t.frame <= MaxFrame
        /\ currentFrame' = t.frame
        /\ isPlaying' = IF t.stop THEN FALSE ELSE isPlaying
        /\ FrameEffects(t.frame)
  /\ ev' = "tick"
  /\ UNCHANGED <<editorVars, batch, totalFrames, videoInfo, failures>>

NextVideo ==
  \/ VideoInfoDone
  \/ \E i \in 0..(Frames - 1) : FrameLoaded(i)
  \/ \E i \in 0..(Frames - 1) : FrameFailed(i)
  \/ handlePlayPause
  \/ handlePreviousFrame
  \/ handleNextFrame
  \/ \E value \in 0..MaxFrame : handleSliderChange(value)
  \/ Tick

(* the VideoPlayer on one uploaded video *)
SpecVideo == InitVideo /\ [][NextVideo]_vars

(* the same player with the images loading twice for an index kept apart *)
SpecRefetch == InitRefetch /\ [][NextVideo]_vars

(* ------------------------------------------------------------------ *)
(* BatchMode: handleStartBatch and the status polling effect           *)
(* ------------------------------------------------------------------ *)
storeVars == <<currentFileId, segmentationResult, heap, selectedMaskId, activeTool, history,
               historyIndex, isDrawing, currentStroke, inflight, rt>>

InitBatch == profile = "batch" /\ InitCommon

(* handleStartBatch up to its await: the button is disabled while isLoading;
   without folders or prompts there is an error toast and nothing else *)
handleStartBatch(valid) ==
  /\ ~isLoading
  /\ Len(batch.server) < MaxJobs
  /\ IF valid
     THEN /\ isLoading' = TRUE
          /\ batch' = [batch EXCEPT !.creating = TRUE]
     ELSE UNCHANGED <<isLoading, batch>>
  /\ ev' = "other"
  /\ UNCHANGED <<playerVars, profile, storeVars>>

(* createBatchJob answers: setCurrentJobId(result.job_id), and the effect
   clears the interval of the job before and sets one for the new job; or
   it throws: setIsLoading(false) *)
CreateDone(ok) ==
  /\ batch.creating
  /\ IF ok
     THEN /\ batch' = [batch EXCEPT !.creating = FALSE,
                                    !.currentJobId = Len(batch.server) + 1,
                                    !.server = Append(@, "processing"),
                                    !.polling = TRUE]
          /\ UNCHANGED isLoading
     ELSE /\ batch' = [batch EXCEPT !.creating = FALSE]
          /\ isLoading' = FALSE
  /\ ev' = "other"
  /\ UNCHANGED <<playerVars, profile, storeVars>>

(* the job comes to its end on the server *)
JobEnds(j, outcome) ==
  /\ j \in 1..Len(batch.server)
  /\ batch.server[j] = "processing"
  /\ batch' = [batch EXCEPT !.server[j] = outcome]
  /\ ev' = "other"
  /\ UNCHANGED <<playerVars, profile, storeVars, isLoading>>

(* the interval fires: getBatchJobStatus(currentJobId) is sent *)
PollTick ==
  /\ batch.polling
  /\ Len(batch.statusRequests) < MaxStatusRequests
  /\ batch' = [batch EXCEPT !.statusRequests = Append(@, batch.currentJobId)]
  /\ ev' = "other"
  /\ UNCHANGED <<playerVars, profile, storeVars, isLoading>>

(* catch of the interval callback: console.error and clearInterval(interval)
   of the effect that sent the request *)
pollCatch(b, loading, job) ==
  [batch |-> [b EXCEPT !.polling = IF job = b.currentJobId THEN FALSE ELSE @],
   isLoading |-> loading]

(* the interval callback after its await: setJobStatus(status); when the job
   is completed or failed, clearInterval(interval) and setIsLoading(false) *)
pollAnswer(b, loading, job, status) ==
  IF status \in {"completed", "failed"}
  THEN [batch |-> [b EXCEPT !.jobStatus = status,
                            !.polling = IF job = b.currentJobId THEN FALSE ELSE @],
        isLoading |-> FALSE]
  ELSE [batch |-> [b EXCEPT !.jobStatus = status], isLoading |-> loading]

StatusDone(k, ok) ==
  /\ k \in 1..Len(batch.statusRequests)
  /\ LET job == batch.statusRequests[k]
         b == [batch EXCEPT !.statusRequests = RemoveAt(@, k)]
         r == IF ok THEN pollAnswer(b, isLoading, job, batch.server[job])
              ELSE pollCatch(b, isLoading, job)
     IN /\ batch' = r.batch
        /\ isLoading' = r.isLoading
  /\ ev' = "other"
  /\ UNCHANGED <<playerVars, profile, storeVars>>

NextBatch ==
  \/ \E valid \in BOOLEAN : handleStartBatch(valid)
  \/ \E ok \in BOOLEAN : CreateDone(ok)
  \/ \E j \in 1..MaxJobs, outcome \in {"completed", "failed"} : JobEnds(j, outcome)
  \/ PollTick
  \/ \E k \in 1..MaxStatusRequests, ok \in BOOLEAN : StatusDone(k, ok)

(* the batch page *)
SpecBatch == InitBatch /\ [][NextBatch]_vars

(* the batch page with the requests answered, the interval firing while it
   is set and the job coming to an end *)
SpecBatchLive ==
  /\ SpecBatch
  /\ WF_vars(\E ok \in BOOLEAN : CreateDone(ok))
  /\ WF_vars(\E j \in 1..MaxJobs, outcome \in {"completed", "failed"} : JobEnds(j, outcome))
  /\ WF_vars(PollTick)
  /\ WF_vars(\E k \in 1..MaxStatusRequests, ok \in BOOLEAN : StatusDone(k, ok))

(* ------------------------------------------------------------------ *)
(* Specifications                                                      *)
(* ------------------------------------------------------------------ *)
Next ==
  \/ UploadStart
  \/ \E i \in 1..Len(inflight), ok \in BOOLEAN : UploadDone(i, ok)
  \/ SegmentStart
  \/ \E i \in 1..Len(inflight) : SegmentDone(i, FALSE, NoReg)
  \/ \E i \in 1..Len(inflight), val \in Bnd.infer : SegmentDone(i, TRUE, val)
  \/ Reset
  \/ \E t \in {"cursor", "brush", "eraser"} : ToolSelect(t)
  \/ \E m \in 0..(MaxMasks - 1) : MaskSelect(m)
  \/ CreateNewMask
  \/ \E m \in 0..(MaxMasks - 1), c \in BOOLEAN : DeleteMask(m, c)
  \/ MouseDown
  \/ \E m \in 0..(MaxMasks - 1) : MaskClick(m)
  \/ MouseMove
  \/ MouseUp
  \/ MouseLeave
  \/ \E i \in 1..Len(inflight), resp \in Responses(Bnd.fps) : StrokeDone(i, resp)
  \/ \E e \in KeyEvents : KeyDown(e)
  \/ ClickUndo
  \/ ClickRedo

Spec == Init /\ [][Next]_vars

(* the same handlers with the edge answers of the two services *)
SpecEdge == InitEdge /\ [][Next]_vars

(* the same handlers with a mask-compute service that answers a stroke
   mask without a pixel *)
SpecZero == InitZero /\ [][Next]_vars

(* the same handlers with a mask-compute service that answers a mask of
   another size than the image *)
SpecDim == InitDim /\ [][Next]_vars

(* One editing session on one fresh inference result: new instances are
   painted one after the other, then undo and redo are pressed while no
   stroke is being drawn or applied *)
Quiet == ~isDrawing /\ inflight = <<>>
Setup == rt.phase = "P" /\ rt.p = 0 /\ rt.u = 0
PushFollows == RtStep("push", NoReg).phase # "X"

Valid == rt'.phase # "X"

NextHist ==
  \/ UploadStart /\ Valid
  \/ \E i \in 1..Len(inflight) : UploadDone(i, TRUE) /\ Valid
  \/ segmentationResult = NullRef /\ SegmentStart /\ Valid
  \/ \E i \in 1..Len(inflight), val \in Bnd.infer : SegmentDone(i, TRUE, val) /\ Valid
  \/ Setup /\ ToolSelect("brush") /\ Valid
  \/ Setup /\ CreateNewMask /\ Valid
  \/ PushFollows /\ selectedMaskId = NewSel /\ MouseDown /\ Valid
  \/ MouseUp /\ Valid
  \/ \E i \in 1..Len(inflight), resp \in Responses(Bnd.fps) :
       resp.tag = "mask" /\ StrokeDone(i, resp) /\ Valid
  \/ \E e \in KeyEvents : Quiet /\ (UndoKey(e) \/ RedoKey(e)) /\ KeyDown(e) /\ Valid
  \/ Quiet /\ ClickUndo /\ Valid
  \/ Quiet /\ ClickRedo /\ Valid

SpecHist == InitHist /\ [][NextHist]_vars

(* ------------------------------------------------------------------ *)
(* Properties                                                          *)
(* ------------------------------------------------------------------ *)
(* the edits awaiting the mask-compute service, with each answer that holds a mask *)
PendingEdits == {i \in 1..Len(inflight) : inflight[i].kind = "edit"}
StrokeMasks == {resp \in Responses(Bnd.fps) : resp.tag = "mask"}

(* the registry displayed once the pending edit i is answered with resp *)
Merged(i, resp) ==
  MergeStroke(heap, inflight[i].given, inflight[i].maskId, inflight[i].operation, resp.mask)
AfterStroke(i, resp) ==
  LET m == Merged(i, resp)
      s == handleBrushStrokeSave([Store EXCEPT !.heap = m.heap], m.ref)
  IN Deref(s.heap, s.sr)

(* the pending edit i is a stroke on an index of the registry its handler holds *)
OnInstance(i, operation) ==
  /\ inflight[i].operation = operation
  /\ inflight[i].given # NullRef
  /\ inflight[i].maskId \in 0..(Len(Deref(heap, inflight[i].given).masks) - 1)

(* pixelwise OR of two masks of the image's dimensions *)
MaskOr(a, b) == [y \in 1..ImgH |-> [x \in 1..ImgW |-> IF a[y][x] = 1 \/ b[y][x] = 1 THEN 1 ELSE 0]]

(* C1: from a fresh inference result, N pushes (N at most the capacity),
   then N undos, then N redos display again the registry that was displayed
   after the Nth push *)
C1_UndoRedoRoundTrip ==
  (rt.phase = "R" /\ rt.p >= 1 /\ rt.p <= maxHistorySize /\ rt.u = rt.p /\ rt.r = rt.p)
    => Displayed = rt.target

C1_Witness ==
  /\ rt.phase = "R" /\ rt.p = 3 /\ rt.u = 3 /\ rt.r = 3
  /\ Len(history) = 4 /\ historyIndex = 3
  /\ Displayed = rt.target /\ Len(Displayed.masks) = 4

(* C2: no stroke and no explicit deletion changes a snapshot stored in the
   history or the registry object the operation was given, and undo after
   the edit restores the registry displayed before it *)
C2_EditsLeaveTheirInputs ==
  /\ \A i \in PendingEdits, resp \in StrokeMasks :
       LET m == Merged(i, resp)
           s == handleBrushStrokeSave([Store EXCEPT !.heap = m.heap], m.ref)
       IN m.out = "applied" =>
            /\ Deref(m.heap, inflight[i].given) = Deref(heap, inflight[i].given)
            /\ SubSeq(s.history, 1, s.historyIndex) = SubSeq(history, 1, s.historyIndex)
            /\ segmentationResult # NullRef => Deref(undo(s).heap, undo(s).sr) = Displayed
  /\ \A maskId \in 0..(Len(Displayed.masks) - 1) :
       LET s == handleDeleteMask(Store, maskId)
       IN /\ Deref(s.heap, segmentationResult) = Displayed
          /\ SubSeq(s.history, 1, s.historyIndex) = SubSeq(history, 1, s.historyIndex)
          /\ Deref(undo(s).heap, undo(s).sr) = Displayed

(* C3: between the sending of a stroke to the mask-compute service and its
   completion no pointer-down starts another stroke *)
C3_NoStrokeStartsWhileApplying ==
  [][(~isDrawing /\ isDrawing') => PendingEdits = {}]_vars

(* C4: a push discards the snapshots ahead of the cursor, so redo is
   unavailable right after any push; after pushes, undos and one more push
   the undoable steps are those up to the cursor plus the new one: push,
   push, undo, push leaves exactly 2 *)
C4_PushDiscardsRedoBranch ==
  /\ ev \in {"push", "delete"} => ~canRedo(Store)
  /\ (rt.phase = "Q" /\ rt.q = 1 /\ rt.p < maxHistorySize) =>
       /\ historyIndex = rt.p - Min(rt.u, rt.p) + 1
       /\ Len(history) = historyIndex + 1

C4_Witness ==
  /\ rt.phase = "Q" /\ rt.p = 2 /\ rt.u = 1 /\ rt.q = 1
  /\ ev = "push" /\ historyIndex = 2 /\ Len(history) = 3

(* C5: the history never holds more than maxHistorySize snapshots; from the
   push that first exceeds the capacity on, exactly maxHistorySize - 1 undos
   take effect *)
C5_CapacityAndEviction ==
  /\ Len(history) <= maxHistorySize
  /\ (rt.phase \in {"P", "U"} /\ rt.p >= maxHistorySize) =>
       /\ Len(history) = maxHistorySize
       /\ historyIndex = Max(0, maxHistorySize - 1 - rt.u)

C5_Witness ==
  /\ rt.phase = "U" /\ rt.p = maxHistorySize /\ rt.u = maxHistorySize
  /\ historyIndex = 0 /\ Len(history) = maxHistorySize

(* C6: in every reachable state the displayed registry is the history
   snapshot at the cursor; with no registry displayed the history is empty *)
C6_CursorAtDisplayed ==
  IF segmentationResult = NullRef
  THEN history = <<>> /\ historyIndex = -1
  ELSE /\ historyIndex \in 0..(Len(history) - 1)
       /\ Displayed = history[historyIndex + 1]

C6_Witness ==
  /\ segmentationResult # NullRef
  /\ Len(history) = 2 /\ historyIndex = 0
  /\ history[1] # history[2]
  /\ Displayed = history[1]

(* C7: undo changes nothing at the first snapshot and redo changes nothing
   at the last one; canUndo holds exactly above cursor 0 and canRedo exactly
   below the last index *)
C7_UndoRedoAtTheEnds ==
  /\ canUndo(Store) <=> historyIndex > 0
  /\ canRedo(Store) <=> historyIndex < Len(history) - 1
  /\ \A e \in KeyEvents :
       /\ (UndoKey(e) /\ historyIndex <= 0) => handleKeyDown(Store, e) = Store
       /\ (RedoKey(e) /\ historyIndex >= Len(history) - 1) => handleKeyDown(Store, e) = Store
       /\ (UndoKey(e) /\ historyIndex > 0) =>
            handleKeyDown(Store, e).historyIndex = historyIndex - 1
       /\ (RedoKey(e) /\ historyIndex < Len(history) - 1) =>
            handleKeyDown(Store, e).historyIndex = historyIndex + 1
  /\ (rt.phase = "U" /\ rt.p < maxHistorySize) => historyIndex = Max(0, rt.p - rt.u)
  /\ (rt.phase = "R" /\ rt.p < maxHistorySize) =>
       historyIndex = Min(rt.p, Max(0, rt.p - rt.u) + rt.r)

C7_Witness ==
  /\ rt.phase = "R" /\ rt.p = 2 /\ rt.u = 3 /\ rt.r = 3
  /\ historyIndex = 2 /\ Len(history) = 3

(* C8: right after a successful segmentation the history holds that result
   as its only snapshot, and neither undo nor redo is available *)
C8_SegmentationRestartsHistory ==
  ev = "segment" =>
    /\ history = <<Displayed>>
    /\ historyIndex = 0
    /\ ~canUndo(Store) /\ ~canRedo(Store)
    /\ Displayed \in Bnd.infer

C8_Witness ==
  /\ ev = "segment" /\ historyIndex = 0
  /\ Len(history) = 1 /\ Len(Displayed.masks) = 2
  /\ activeTool = "brush" /\ selectedMaskId = NewSel

(* C9: an add-stroke on a valid index leaves the instance at its index with
   the mask oldMask OR footprint, and leaves the other instances' masks *)
C9_AddIsUnion ==
  \A i \in PendingEdits, resp \in StrokeMasks :
    OnInstance(i, "add") =>
      LET old == Deref(heap, inflight[i].given)
          new == AfterStroke(i, resp)
          k == inflight[i].maskId + 1
      IN /\ Merged(i, resp).out = "applied"
         /\ Len(new.masks) = Len(old.masks)
         /\ new.masks[k] = MaskOr(old.masks[k], resp.mask)
         /\ \A j \in 1..Len(old.masks) : j # k => new.masks[j] = old.masks[j]

C9_Witness ==
  /\ ev = "push" /\ Len(history) = 2 /\ historyIndex = 1
  /\ history[1].masks = <<MaskA, MaskB>>
  /\ Displayed.masks = <<MaskOr(MaskA, MaskB), MaskB>>

(* C10: after a stroke that changes an instance (add, or remove that leaves
   pixels) the instance's box is the minimal bounding rectangle of its new
   mask *)
C10_BoxBoundsNewMask ==
  \A i \in PendingEdits, resp \in StrokeMasks :
    (OnInstance(i, "add") \/ OnInstance(i, "remove")) =>
      LET old == Deref(heap, inflight[i].given)
          new == AfterStroke(i, resp)
          k == inflight[i].maskId + 1
      IN Len(new.masks) = Len(old.masks) => new.boxes[k] = BoxOf(new.masks[k])

(* pixelwise a AND NOT b of two masks of the image's dimensions *)
MaskAndNot(a, b) == [y \in 1..ImgH |-> [x \in 1..ImgW |-> IF a[y][x] = 1 /\ b[y][x] # 1 THEN 1 ELSE 0]]

(* every set pixel of a is a set pixel of b *)
Covers(b, a) == \A y \in 1..ImgH, x \in 1..ImgW : a[y][x] = 1 => b[y][x] = 1

(* s without its kth element, 1-based *)
Without(s, k) == [j \in 1..(Len(s) - 1) |-> IF j < k THEN s[j] ELSE s[j + 1]]

(* C11: a remove-stroke on a valid index whose footprint covers every set
   pixel of the instance deletes the instance (the later ones shift down by
   one, order kept) and clears the selection; if a pixel survives, the
   instance stays at its index with mask oldMask AND NOT footprint *)
C11_RemoveErasesOrDeletes ==
  \A i \in PendingEdits, resp \in StrokeMasks :
    OnInstance(i, "remove") =>
      LET old == Deref(heap, inflight[i].given)
          new == AfterStroke(i, resp)
          k == inflight[i].maskId + 1
      IN /\ Merged(i, resp).out = "applied"
         /\ IF Covers(resp.mask, old.masks[k])
            THEN /\ new.masks = Without(old.masks, k)
                 /\ new.boxes = Without(old.boxes, k)
                 /\ new.scores = Without(old.scores, k)
                 /\ Merged(i, resp).clearSel
            ELSE /\ Len(new.masks) = Len(old.masks)
                 /\ new.masks[k] = MaskAndNot(old.masks[k], resp.mask)
                 /\ ~Merged(i, resp).clearSel

C11_Witness ==
  /\ ev = "push" /\ Len(history) = 2 /\ historyIndex = 1
  /\ history[1].masks = <<MaskA, MaskB>>
  /\ Displayed.masks = <<MaskA>> /\ Displayed.scores = <<90>>
  /\ selectedMaskId = NullSel /\ activeTool = "eraser"

(* C12: in every reachable state no instance of the registry has an
   all-zero mask, whatever create, add, remove, delete, undo and redo
   preceded, a create-stroke with an empty footprint included *)
C12_NoEmptyMask ==
  \A k \in 1..Len(Displayed.masks) : hasPixels(Displayed.masks[k])

(* the pending edit i was sent with the selection "new" *)
OnNew(i) == inflight[i].maskId = NewSel /\ inflight[i].given # NullRef

(* C13: a brush stroke completed with the selection "new" appends exactly
   one instance, whose mask is the footprint, at the end of the registry and
   leaves every existing instance at its index unchanged; from an empty
   registry the result has exactly one instance *)
C13_CreateAppendsOne ==
  \A i \in PendingEdits, resp \in StrokeMasks :
    OnNew(i) =>
      LET old == Deref(heap, inflight[i].given)
          new == AfterStroke(i, resp)
          n == Len(old.masks)
      IN /\ Merged(i, resp).out = "applied"
         /\ inflight[i].operation = "add"
         /\ Len(new.masks) = n + 1 /\ Len(new.boxes) = n + 1 /\ Len(new.scores) = n + 1
         /\ new.masks[n + 1] = resp.mask
         /\ SubSeq(new.masks, 1, n) = old.masks
         /\ SubSeq(new.boxes, 1, n) = old.boxes
         /\ SubSeq(new.scores, 1, n) = old.scores
         /\ ~Merged(i, resp).clearSel

C13_Witness ==
  /\ ev = "push" /\ Len(history) = 2 /\ historyIndex = 1
  /\ history[1].masks = <<>>
  /\ Displayed.masks = <<MaskB>>
  /\ selectedMaskId = NewSel

(* C14: an instance created by a brush stroke or edited by an add or
   remove stroke has score 1.0 (100 hundredths) afterwards *)
C14_ManualScore ==
  \A i \in PendingEdits, resp \in StrokeMasks :
    LET old == Deref(heap, inflight[i].given)
        new == AfterStroke(i, resp)
        k == inflight[i].maskId + 1
    IN /\ OnNew(i) => new.scores[Len(new.scores)] = 100
       /\ ((OnInstance(i, "add") \/ OnInstance(i, "remove")) /\ Len(new.masks) = Len(old.masks))
            => new.scores[k] = 100

(* the tool and the selection may start a stroke *)
LegalPairing ==
  \/ activeTool = "brush" /\ selectedMaskId # NullSel
  \/ activeTool = "eraser" /\ selectedMaskId \notin {NullSel, NewSel}

(* C15: a pointer-down starts a stroke only with a legal pairing of tool
   and selection (brush: selection not null; eraser: selection an index);
   otherwise a warning is raised, no stroke starts and neither the registry
   nor the history changes *)
C15_StrokeNeedsLegalPairing ==
  [][/\ (~isDrawing /\ isDrawing') => LegalPairing
     /\ ev' = "invalid" =>
          /\ ~LegalPairing
          /\ ~isDrawing' /\ currentStroke' = 0
          /\ UNCHANGED <<segmentationResult, heap, history, historyIndex, inflight,
                         selectedMaskId, activeTool>>]_vars

C15_Witness ==
  /\ ev = "invalid" /\ activeTool = "eraser" /\ selectedMaskId = NullSel
  /\ ~isDrawing /\ Len(history) = 2 /\ Len(Displayed.masks) = 1

(* C16: an add or remove stroke on the selected instance leaves the mask,
   the box and the score of every other instance unchanged (the others only
   shift down when the stroke erases the instance) *)
C16_OtherInstancesUntouched ==
  \A i \in PendingEdits, resp \in StrokeMasks :
    (OnInstance(i, "add") \/ OnInstance(i, "remove")) =>
      LET old == Deref(heap, inflight[i].given)
          new == AfterStroke(i, resp)
          k == inflight[i].maskId + 1
          others(a) == [a EXCEPT ![k] = 0]
      IN IF Len(new.masks) = Len(old.masks)
         THEN /\ others(new.masks) = others(old.masks)
              /\ others(new.boxes) = others(old.boxes)
              /\ others(new.scores) = others(old.scores)
         ELSE /\ new.masks = Without(old.masks, k)
              /\ new.boxes = Without(old.boxes, k)
              /\ new.scores = Without(old.scores, k)

C16_Witness ==
  /\ ev = "push" /\ Len(history) = 2 /\ historyIndex = 1
  /\ history[1] = Reg(<<MaskA, MaskB>>, <<90, 80>>)
  /\ Displayed.masks[1] = FullMask
  /\ Displayed.masks[2] = MaskB /\ Displayed.boxes[2] = BoxOf(MaskB) /\ Displayed.scores[2] = 80

(* the selection after the deletion of index m, as specified *)
SelectionShift(sel, m) ==
  CASE sel = NullSel -> NullSel
    [] sel = NewSel -> NewSel
    [] sel = m -> NullSel
    [] sel > m -> sel - 1
    [] OTHER -> sel

(* C17: deleting the instance at index i removes exactly that instance,
   the others keeping their order; the selection becomes null if it was i,
   is decremented if it was an index above i, and is unchanged otherwise *)
C17_DeleteRemovesOneAndShiftsSelection ==
  [][ev' = "delete" =>
       \E m \in 0..(Len(Displayed.masks) - 1) :
         /\ Displayed'.masks = Without(Displayed.masks, m + 1)
         /\ Displayed'.boxes = Without(Displayed.boxes, m + 1)
         /\ Displayed'.scores = Without(Displayed.scores, m + 1)
         /\ selectedMaskId' = SelectionShift(selectedMaskId, m)]_vars

C17_Witness ==
  /\ ev = "delete" /\ Len(history) = 2 /\ historyIndex = 1
  /\ history[1].masks = <<MaskA, MaskB>>
  /\ Displayed.masks = <<MaskB>> /\ Displayed.scores = <<80>>
  /\ selectedMaskId = 0

(* C18: a stroke finalized by pointer-up and applied causes exactly one
   history push, and nothing else changes the registry between its
   pointer-up and its application: it is applied to the displayed registry *)
C18_OneStrokeOnePush ==
  \A i \in PendingEdits :
    /\ Deref(heap, inflight[i].given) = Displayed
    /\ \A resp \in StrokeMasks :
         LET m == Merged(i, resp)
             s == handleBrushStrokeSave([Store EXCEPT !.heap = m.heap], m.ref)
         IN m.out = "applied" =>
              /\ s.historyIndex = Min(historyIndex + 1, maxHistorySize - 1)
              /\ Len(s.history) = s.historyIndex + 1
              /\ s.history[s.historyIndex + 1] = Deref(m.heap, m.ref)

(* C19: when the pointer leaves the canvas during a stroke the stroke is
   discarded: nothing is sent to the mask-compute service, the registry and
   the history are unchanged, and a later pointer-up submits nothing; an
   edit is only ever sent from a stroke still being drawn *)
C19_LeaveDiscardsStroke ==
  [][/\ ev' = "leave" =>
          /\ isDrawing /\ ~isDrawing' /\ currentStroke' = 0
          /\ UNCHANGED <<segmentationResult, heap, history, historyIndex, inflight,
                         isLoading, selectedMaskId>>
     /\ (Len(inflight') > Len(inflight) /\ inflight'[Len(inflight')].kind = "edit") =>
          isDrawing /\ currentStroke > 0 /\ ev # "leave"
     /\ ~isDrawing' => currentStroke' = 0]_vars

C19_Witness ==
  /\ ev = "leave" /\ ~isDrawing /\ currentStroke = 0
  /\ inflight = <<>> /\ ~isLoading
  /\ activeTool = "brush" /\ selectedMaskId = 0
  /\ Len(history) = 1 /\ historyIndex = 0

(* C20: when the stroke-apply request fails an error is shown, the request
   is gone and no new one is sent in its place, the displayed registry, the
   selection and the history are what they were, and the pending flag is
   cleared so the user can draw again *)
C20_FailedStrokeChangesNothing ==
  [][(ev' = "fail" /\ PendingEdits # {} /\ Len(inflight') < Len(inflight)
        /\ \A j \in 1..Len(inflight) : inflight[j].kind = "edit") =>
       /\ Displayed' = Displayed
       /\ (segmentationResult' = NullRef) = (segmentationResult = NullRef)
       /\ history' = history /\ historyIndex' = historyIndex
       /\ selectedMaskId' = selectedMaskId
       /\ activeTool' = activeTool
       /\ Len(inflight') = Len(inflight) - 1
       /\ ~isLoading']_vars

C20_Witness ==
  /\ ev = "fail" /\ inflight = <<>> /\ ~isLoading
  /\ segmentationResult # NullRef /\ Len(Displayed.masks) = 2
  /\ selectedMaskId = 0 /\ activeTool = "brush"
  /\ Len(history) = 1 /\ historyIndex = 0
  /\ CanvasShown /\ ~isDrawing

(* the mask has the image's height and width *)
SameSize(m) == Len(m) = ImgH /\ \A y \in 1..Len(m) : Len(m[y]) = ImgW

(* C21: a footprint whose height or width differs from the image's is
   rejected: the stroke it answers is not applied, so the registry and the
   history stay as they are, for create as well as for add and remove *)
C21_MismatchedFootprintRejected ==
  \A i \in PendingEdits, resp \in StrokeMasks :
    (inflight[i].given # NullRef /\ ~SameSize(resp.mask)) =>
      /\ Merged(i, resp).out # "applied"
      /\ Deref(Merged(i, resp).heap, inflight[i].given) = Deref(heap, inflight[i].given)

(* C22: a stroke whose selection index does not refer to an instance of the
   displayed registry (the instance was deleted, or an undo or redo brought
   back a shorter registry) is not applied: whatever the mask-compute
   service answers, the registry and the history stay as they are *)
C22_StaleIndexChangesNothing ==
  \A i \in PendingEdits, resp \in StrokeMasks :
    (inflight[i].maskId # NewSel
       /\ inflight[i].maskId \notin 0..(Len(Displayed.masks) - 1)) =>
      /\ Merged(i, resp).out # "applied"
      /\ Merged(i, resp).heap = heap

(* the states of the playback clock *)
Clock == IF ~isPlaying THEN "Stopped" ELSE IF isBuffering THEN "Buffering" ELSE "Playing"

(* all of the next minBufferSize indices are in the cache *)
BufferSufficient == \A i \in 1..minBufferSize : (currentFrame + i) \in loadedFrames

(* C23: currentFrame always lies in 0..total_frames-1; a tick advances it by
   exactly 1, except at the last frame, where the tick stops playback and
   resets it to 0 with playback left off *)
C23_FrameWithinRange ==
  [][/\ currentFrame' \in 0..(totalFrames' - 1)
     /\ ev' = "tick" =>
          IF currentFrame < totalFrames - 1
          THEN currentFrame' = currentFrame + 1 /\ isPlaying'
          ELSE currentFrame' = 0 /\ ~isPlaying']_vars

(* C24: a tick advances currentFrame only from a state where all of the
   next 5 indices are in the cache; while playback is on and the buffer is
   insufficient the clock is in Buffering and no tick is taken *)
C24_TickOnlyWhenBuffered ==
  [][/\ ev' = "tick" => (isPlaying /\ BufferSufficient)
     /\ (isPlaying /\ ~BufferSufficient) => (Clock = "Buffering" /\ ev' # "tick")
     /\ (isPlaying' /\ ~BufferSufficient') => Clock' = "Buffering"]_vars

C24_Witness ==
  /\ ev = "tick" /\ currentFrame = 2 /\ Clock = "Buffering"
  /\ loadedFrames = 0..(VideoFrames - 1)

(* the steps of the clock the state diagram has, and the steps that leave
   the clock where it is *)
ClockStepInDiagram ==
  <<Clock, Clock'>> \in {<<"Stopped", "Stopped">>, <<"Buffering", "Buffering">>,
                         <<"Playing", "Playing">>, <<"Stopped", "Buffering">>,
                         <<"Buffering", "Playing">>, <<"Playing", "Buffering">>,
                         <<"Playing", "Stopped">>, <<"Buffering", "Stopped">>}

(* C25: the clock only goes Stopped->Buffering (play), Buffering->Playing
   (buffer sufficient), Playing->Buffering (buffer insufficient) and
   Playing or Buffering->Stopped (pause, seek); play never takes Stopped
   directly to Playing *)
C25_ClockTransitions ==
  [][ClockStepInDiagram]_vars

(* C25 as amended: play takes Stopped to Buffering when the buffer is
   insufficient and directly to Playing when it is sufficient; Buffering
   goes to Playing when a loaded frame makes the buffer sufficient, Playing
   goes to Buffering when a tick leaves it insufficient, and pause, seek and
   the end of the video lead to Stopped *)
C25_ClockTransitionsAmended ==
  [][/\ (Clock = "Stopped" /\ Clock' # "Stopped") =>
          /\ currentFrame' = currentFrame /\ loadedFrames' = loadedFrames
          /\ Clock' = (IF BufferSufficient THEN "Playing" ELSE "Buffering")
     /\ (Clock = "Buffering" /\ Clock' = "Playing") =>
          /\ ~BufferSufficient /\ BufferSufficient'
          /\ currentFrame' = currentFrame /\ loadedFrames # loadedFrames'
     /\ (Clock = "Playing" /\ Clock' = "Buffering") =>
          /\ ev' = "tick" /\ ~BufferSufficient'
     /\ (Clock # "Stopped" /\ Clock' = "Stopped") =>
          \/ ev' = "seek"
          \/ ev' = "tick" /\ currentFrame >= totalFrames - 1
          \/ ev' = "other" /\ currentFrame' = currentFrame
     /\ Clock' = "Playing" => BufferSufficient'
     /\ Clock' = "Buffering" => ~BufferSufficient']_vars

C25_Witness ==
  /\ Clock = "Playing" /\ currentFrame = 1 /\ ev = "other"
  /\ loadedFrames = 2..(VideoFrames - 1)

(* C26: a seek (slider, previous frame, next frame) sets currentFrame at
   once and leaves the clock Stopped; while the clock is Stopped no tick is
   taken and only play turns it on again, so after a seek currentFrame is
   changed by nothing but another seek until play is pressed *)
C26_SeekStopsClock ==
  [][/\ ev' = "seek" =>
          /\ Clock' = "Stopped"
          /\ currentFrame' \in 0..(totalFrames - 1)
     /\ ev' = "tick" => isPlaying
     /\ (~isPlaying /\ isPlaying') => (ev' = "other" /\ currentFrame' = currentFrame)
     /\ (~isPlaying /\ currentFrame' # currentFrame) => ev' = "seek"]_vars

C26_Witness ==
  /\ ev = "seek" /\ Clock = "Stopped" /\ currentFrame = 1
  /\ BufferSufficient /\ ~isBuffering

(* C27: play pressed while currentFrame is the last frame of the video does
   not put the clock in Buffering: the end of the range is detected, the
   clock is Stopped again at once and currentFrame is 0 *)
C27_PlayAtLastFrameStops ==
  [][(videoInfo = "loaded" /\ currentFrame = totalFrames - 1 /\ ~isPlaying /\ isPlaying') =>
       (Clock' # "Buffering" /\ (Clock' = "Stopped" => currentFrame' = 0))]_vars

(* the indices a step of the player starts a fetch for, in order: the
   preload runs when the frame index changes *)
Requested ==
  IF currentFrame' # currentFrame THEN preloadFrames(currentFrame', loadedFrames) ELSE <<>>

(* C28: requesting an index that is cached or whose fetch is still pending
   starts no new fetch, so an index requested twice before its fetch
   completes is fetched once *)
C28_RequestIdempotent ==
  [][\A k \in 1..Len(Requested) :
       /\ Requested[k] \notin loadedFrames
       /\ Requested[k] \notin fetching]_vars

(* C29: every change of the playback index, by tick or by seek, requests
   the indices among the next preloadBuffer from the new position that are
   neither cached nor pending, in ascending order *)
C29_PreloadWindow ==
  [][currentFrame' # currentFrame =>
       /\ Range(Requested) =
            (currentFrame'..(currentFrame' + preloadBuffer - 1)) \ (loadedFrames \cup fetching)
       /\ \A j, k \in 1..Len(Requested) : j < k => Requested[j] < Requested[k]
       /\ {f \in Range(Requested) : HasFrame(f)} \subseteq fetching']_vars

(* C30: a frame fetch that fails is retried once before the index is given
   up as unavailable; in particular the first fetch that fails in a session
   is started again, so its index is still being fetched after the failure *)
C30_FailedFetchRetriedOnce ==
  [][(ev' = "failed" /\ failures = 0) => fetching' = fetching]_vars

(* the registry the pending edit i would give if the stroke mask were merged
   into the registry displayed now *)
MergedIntoDisplayed(i, resp) ==
  MergeStroke(heap, segmentationResult, inflight[i].maskId, inflight[i].operation, resp.mask)

(* C33: a stroke answered by the mask-compute service is merged into the
   registry displayed when the answer arrives: whatever a deletion, an undo,
   a redo or another stroke did to the display while the request was in
   flight is part of the registry the stroke pushes *)
C33_StrokeAppliedToDisplayed ==
  \A i \in PendingEdits, resp \in StrokeMasks :
    Merged(i, resp).out = "applied" =>
      /\ MergedIntoDisplayed(i, resp).out = "applied"
      /\ AfterStroke(i, resp)
           = Deref(MergedIntoDisplayed(i, resp).heap, MergedIntoDisplayed(i, resp).ref)

(* C34: the selection is null, "new" or the index of an instance of the
   displayed registry *)
C34_SelectionValid ==
  \/ selectedMaskId \in {NullSel, NewSel}
  \/ /\ segmentationResult # NullRef
     /\ selectedMaskId \in 0..(Len(Displayed.masks) - 1)

(* the lists of a registry have one entry per instance *)
ParallelLists(reg) == Len(reg.boxes) = Len(reg.masks) /\ Len(reg.scores) = Len(reg.masks)

(* C37: masks, boxes and scores of the displayed registry and of every
   snapshot of the history have the same length *)
C37_ParallelLists ==
  /\ segmentationResult # NullRef => ParallelLists(Displayed)
  /\ \A k \in 1..Len(history) : ParallelLists(history[k])

(* C38: with a segmentation result on display, also one without an instance,
   the selection is "new" or the '+ Create New Mask' button is on the page *)
C38_CreateReachable ==
  (currentFileId # "null" /\ segmentationResult # NullRef) =>
    (selectedMaskId = NewSel \/ MaskListShown)

C37_Witness ==
  /\ ev = "delete"
  /\ Len(Displayed.masks) = 1 /\ ParallelLists(Displayed)
  /\ Len(history) = 2 /\ Len(history[1].masks) = 2

(* the step is the completion of a load of index i: one of its images
   stops loading and no failure is counted *)
Completed(i) ==
  /\ currentFrame' = currentFrame
  /\ failures' = failures
  /\ \/ i \in refetching /\ i \notin refetching'
     \/ i \in fetching /\ i \notin fetching'

(* C31: whatever the order in which the loads complete, a completion adds
   its index to the cache and nothing else does, no step takes an index out
   of the cache, and an index is written once: no load completes for an
   index that is cached already *)
C31_CacheWriteOnce ==
  [][/\ loadedFrames \subseteq loadedFrames'
     /\ \A i \in loadedFrames' \ loadedFrames : Completed(i)
     /\ \A i \in 0..(Frames - 1) :
          Completed(i) => (i \notin loadedFrames /\ i \in loadedFrames')]_vars

(* the cache only grows, a completion adds its index, and only a
   completion adds an index *)
C31_CacheGrowsByCompletions ==
  [][/\ loadedFrames \subseteq loadedFrames'
     /\ \A i \in loadedFrames' \ loadedFrames : Completed(i)
     /\ \A i \in 0..(Frames - 1) : Completed(i) => i \in loadedFrames']_vars

(* C32: a seek cancels no load: every index loading before the seek is
   still loading after it, also below the new position, where the preload
   window does not reach; an index stops loading only when its image has
   loaded, which puts it in the cache, or has failed *)
C32_SeekCancelsNoFetch ==
  [][/\ ev' = "seek" => (fetching \subseteq fetching' /\ loadedFrames' = loadedFrames)
     /\ \A i \in fetching \ fetching' : i \in loadedFrames' \/ ev' = "failed"]_vars

C32_Witness ==
  /\ ev = "seek" /\ currentFrame = 3
  /\ 0 \in fetching /\ 1 \in loadedFrames

(* C36: when the video info arrives after a seek or a tick made under the
   default total, currentFrame is within the frames the info reports *)
C36_LateInfoKeepsFrameInRange ==
  [][(videoInfo = "null" /\ videoInfo' = "loaded") =>
       currentFrame' \in 0..(totalFrames' - 1)]_vars

(* every frame of the video is in the cache *)
AllLoaded == loadedFrames = 0..(Frames - 1)

(* the player with its timer firing while it is set and its images loading *)
SpecVideoLive ==
  /\ InitVideo
  /\ [][NextVideo]_vars
  /\ WF_vars(Tick)
  /\ WF_vars(\E i \in 0..(Frames - 1) : FrameLoaded(i))

(* C35: once every frame of the video is cached, playback that is on goes
   to the last frame and stops: the buffer gate does not hold the clock in
   Buffering for ever, also within the last minBufferSize frames *)
C35_PlaybackReachesEnd ==
  (isPlaying /\ videoInfo = "loaded" /\ AllLoaded) ~> ~isPlaying

(* C39: once a batch job is started the loading flag goes back to false and
   the polling stops, whether the job completes, the job fails or a status
   request fails: the Start button does not stay disabled for ever *)
C39_BatchLoadingEnds ==
  (isLoading \/ batch.polling) ~> (~isLoading /\ ~batch.polling)

====
